---- MODULE Spec2Model ----
(***************************************************************************)
(* Model of icclim.models.frequency (Frequency, FrequencyRegistry, the     *)
(* slice_mode resolution and the time-bounds post-processing closures)     *)
(* and of icclim.models.registry (Registry.catalog).                       *)
(*                                                                         *)
(* Python strings are sequences of one-character strings, so that          *)
(* str.upper() is a real conversion.  Python None is NoneVal, except for   *)
(* an absent day of month, which is None_day.  A raised exception is a     *)
(* record [status |-> "raise", exc |-> <exception class>].                 *)
(* Instants are counted in ticks of 30 minutes since 2000-01-01T00:00 of   *)
(* the calendar at hand.                                                   *)
(*                                                                         *)
(* The module also models icclim.pre_processing.rechunk: one use of the    *)
(* create_optimized_zarr_store context manager, step by step, over the     *)
(* set of zarr stores that exist in the working directory.                 *)
(***************************************************************************)
EXTENDS Integers, Sequences, FiniteSets, TLC

VARIABLES FrequencyRegistry, held, out, stores, cm

vars == <<FrequencyRegistry, held, out, stores, cm>>

frequency_vars == <<FrequencyRegistry, held, out>>

rechunk_vars == <<stores, cm>>

(***************************************************************************)
(* Bounds of the model                                                     *)
(***************************************************************************)
MaxSeasonLen == 3
MaxAxisLen == 2
MaxYearSpan == 2

(***************************************************************************)
(* Python values                                                           *)
(***************************************************************************)
NoneVal == [kind |-> "None"]
None_day == 0

Raise(e) == [status |-> "raise", exc |-> e]
Return(v) == [status |-> "return", value |-> v]

SeqToSet(s) == {s[i] : i \in DOMAIN s}

(***************************************************************************)
(* str.upper() and str.lower()                                             *)
(***************************************************************************)
ascii_lowercase ==
  <<"a","b","c","d","e","f","g","h","i","j","k","l","m",
    "n","o","p","q","r","s","t","u","v","w","x","y","z">>
ascii_uppercase ==
  <<"A","B","C","D","E","F","G","H","I","J","K","L","M",
    "N","O","P","Q","R","S","T","U","V","W","X","Y","Z">>

index_of(alphabet, c) ==
  IF \E i \in DOMAIN alphabet : alphabet[i] = c
  THEN CHOOSE i \in DOMAIN alphabet : alphabet[i] = c
  ELSE 0

to_upper ==
  [c \in SeqToSet(ascii_lowercase) |-> ascii_uppercase[index_of(ascii_lowercase, c)]]
to_lower ==
  [c \in SeqToSet(ascii_uppercase) |-> ascii_lowercase[index_of(ascii_uppercase, c)]]

upper_char(c) == IF c \in DOMAIN to_upper THEN to_upper[c] ELSE c
lower_char(c) == IF c \in DOMAIN to_lower THEN to_lower[c] ELSE c

upper(s) == [i \in DOMAIN s |-> upper_char(s[i])]
lower(s) == [i \in DOMAIN s |-> lower_char(s[i])]

(***************************************************************************)
(* icclim.models.constants                                                 *)
(***************************************************************************)
AMJJAS_MONTHS == <<4, 5, 6, 7, 8, 9>>
ONDJFM_MONTHS == <<10, 11, 12, 1, 2, 3>>
DJF_MONTHS == <<12, 1, 2>>
MAM_MONTHS == <<3, 4, 5>>
JJA_MONTHS == <<6, 7, 8>>
SON_MONTHS == <<9, 10, 11>>

MONTHS_MAP ==
  [m \in 1..12 |->
     << <<"J","A","N">>, <<"F","E","B">>, <<"M","A","R">>, <<"A","P","R">>,
        <<"M","A","Y">>, <<"J","U","N">>, <<"J","U","L">>, <<"A","U","G">>,
        <<"S","E","P">>, <<"O","C","T">>, <<"N","O","V">>, <<"D","E","C">> >>[m]]

(***************************************************************************)
(* The two closures a Frequency carries as post_processing, and the two    *)
(* it carries as time_clipping.  A closure is its function and the values  *)
(* it captured.                                                            *)
(***************************************************************************)
get_seasonal_time_updater(start_month, end_month, start_day, end_day) ==
  [fn |-> "get_seasonal_time_updater.add_time_bounds",
   start_month |-> start_month, end_month |-> end_month,
   start_day |-> start_day, end_day |-> end_day]

_get_time_bounds_updater(freq) ==
  [fn |-> "_get_time_bounds_updater.add_time_bounds", freq |-> freq]

_get_month_filter(season) ==
  [fn |-> "_get_month_filter.lambda", season |-> season]

_get_filter_between_dates(begin_date, end_date) ==
  [fn |-> "_get_filter_between_dates.lambda",
   begin_date |-> begin_date, end_date |-> end_date]

(***************************************************************************)
(* @dataclass Frequency                                                    *)
(***************************************************************************)
Frequency(pandas_freq, accepted_values, _description, post_processing, units, indexer, time_clipping) ==
  [pandas_freq |-> pandas_freq,
   accepted_values |-> accepted_values,
   _description |-> _description,
   post_processing |-> post_processing,
   units |-> units,
   indexer |-> indexer,
   time_clipping |-> time_clipping]

FrequencyFields ==
  {"pandas_freq", "accepted_values", "_description", "post_processing",
   "units", "indexer", "time_clipping"}

\* a plain string literal and an f-string with its interpolated values
Text(t) == [fmt |-> t, args |-> <<>>]
FString(t, a) == [fmt |-> t, args |-> a]

dict_month(months) == [month |-> months]
dict_date_bounds(b, e) == [date_bounds |-> <<b, e>>]

(***************************************************************************)
(* class FrequencyRegistry(Registry): the class namespace, in definition   *)
(* order                                                                   *)
(***************************************************************************)
HOUR ==
  Frequency(<<"H">>,
            << <<"h","o","u","r">>, <<"h">>, <<"h","o","u","r","l","y">> >>,
            Text("hourly"), _get_time_bounds_updater(<<"H">>),
            Text("hours"), NoneVal, NoneVal)

DAY ==
  Frequency(<<"D">>,
            << <<"d","a","i","l","y">>, <<"d","a","y">>,
               <<"d","a","y","s">>, <<"d">> >>,
            Text("daily"), _get_time_bounds_updater(<<"D">>),
            Text("days"), NoneVal, NoneVal)

MONTH ==
  Frequency(<<"M","S">>,
            << <<"m","o","n","t","h">>, <<"m","o","n","t","h","l","y">>,
               <<"M","S">> >>,
            Text("monthly"), _get_time_bounds_updater(<<"M","S">>),
            Text("months"), NoneVal, NoneVal)

YEAR ==
  Frequency(<<"Y","S">>,
            << <<"y","e","a","r">>, <<"y","e","a","r","l","y">>,
               <<"a","n","n","u","a","l">>, <<"Y","S">> >>,
            Text("annual"), _get_time_bounds_updater(<<"Y","S">>),
            Text("years"), NoneVal, NoneVal)

AMJJAS ==
  Frequency(<<"A","S","-","A","P","R">>,
            << <<"A","M","J","J","A","S">> >>,
            Text("summer half-year"),
            get_seasonal_time_updater(AMJJAS_MONTHS[1],
                                      AMJJAS_MONTHS[Len(AMJJAS_MONTHS)],
                                      1, None_day),
            Text("half_year_summer"), dict_month(AMJJAS_MONTHS), NoneVal)

ONDJFM ==
  Frequency(<<"A","S","-","O","C","T">>,
            << <<"O","N","D","J","F","M">> >>,
            Text("winter half-year"),
            get_seasonal_time_updater(ONDJFM_MONTHS[1],
                                      ONDJFM_MONTHS[Len(ONDJFM_MONTHS)],
                                      1, None_day),
            Text("half_year_winter"), dict_month(ONDJFM_MONTHS), NoneVal)

DJF ==
  Frequency(<<"A","S","-","D","E","C">>,
            << <<"D","J","F">> >>,
            Text("winter"),
            get_seasonal_time_updater(DJF_MONTHS[1], DJF_MONTHS[Len(DJF_MONTHS)],
                                      1, None_day),
            Text("winter"), dict_month(DJF_MONTHS), NoneVal)

MAM ==
  Frequency(<<"A","S","-","M","A","R">>,
            << <<"M","A","M">> >>,
            Text("spring"),
            get_seasonal_time_updater(MAM_MONTHS[1], MAM_MONTHS[Len(MAM_MONTHS)],
                                      1, None_day),
            Text("spring"), dict_month(MAM_MONTHS), NoneVal)

JJA ==
  Frequency(<<"A","S","-","J","U","N">>,
            << <<"J","J","A">> >>,
            Text("summer"),
            get_seasonal_time_updater(JJA_MONTHS[1], JJA_MONTHS[Len(JJA_MONTHS)],
                                      1, None_day),
            Text("summer"), dict_month(JJA_MONTHS), NoneVal)

SON ==
  Frequency(<<"A","S","-","S","E","P">>,
            << <<"S","O","N">> >>,
            Text("autumn"),
            get_seasonal_time_updater(SON_MONTHS[1], SON_MONTHS[Len(SON_MONTHS)],
                                      1, None_day),
            Text("autumn"), dict_month(SON_MONTHS), NoneVal)

\* cls.__dict__ of FrequencyRegistry: the attributes in definition order
ClassNamespace ==
  << [key |-> "_item_class", value |-> [kind |-> "type"]],
     [key |-> "HOUR", value |-> HOUR],
     [key |-> "DAY", value |-> DAY],
     [key |-> "MONTH", value |-> MONTH],
     [key |-> "YEAR", value |-> YEAR],
     [key |-> "AMJJAS", value |-> AMJJAS],
     [key |-> "ONDJFM", value |-> ONDJFM],
     [key |-> "DJF", value |-> DJF],
     [key |-> "MAM", value |-> MAM],
     [key |-> "JJA", value |-> JJA],
     [key |-> "SON", value |-> SON],
     [key |-> "lookup", value |-> [kind |-> "classmethod"]] >>

\* the attribute name as a Python string
key_str ==
  [k \in {"_item_class", "HOUR", "DAY", "MONTH", "YEAR", "AMJJAS", "ONDJFM",
          "DJF", "MAM", "JJA", "SON", "lookup", "CUSTOM"} |->
     CASE k = "HOUR" -> <<"H","O","U","R">>
       [] k = "DAY" -> <<"D","A","Y">>
       [] k = "MONTH" -> <<"M","O","N","T","H">>
       [] k = "YEAR" -> <<"Y","E","A","R">>
       [] k = "AMJJAS" -> <<"A","M","J","J","A","S">>
       [] k = "ONDJFM" -> <<"O","N","D","J","F","M">>
       [] k = "DJF" -> <<"D","J","F">>
       [] k = "MAM" -> <<"M","A","M">>
       [] k = "JJA" -> <<"J","J","A">>
       [] k = "SON" -> <<"S","O","N">>
       [] k = "CUSTOM" -> <<"C","U","S","T","O","M">>
       [] k = "lookup" -> <<"l","o","o","k","u","p">>
       [] OTHER -> <<"_","i","t","e","m","_","c","l","a","s","s">>]

isinstance_Frequency(v) == DOMAIN v = FrequencyFields

\* Registry.catalog: the Frequency attributes of the class, in order
catalog(cls) == SelectSeq(cls, LAMBDA e : isinstance_Frequency(e.value))

\* Registry.values
values(cls) == [i \in DOMAIN catalog(cls) |-> catalog(cls)[i].value]

(***************************************************************************)
(* References: a Frequency is reached either as an attribute of the class  *)
(* or as an object built by the call that returned it.                     *)
(***************************************************************************)
AttrRef(k) == [ref |-> "FrequencyRegistry", key |-> k]
NewObj(f) == [ref |-> "new", obj |-> f]

attr(cls, k) == cls[CHOOSE i \in DOMAIN cls : cls[i].key = k].value

deref(cls, r) == IF r.ref = "FrequencyRegistry" THEN attr(cls, r.key) ELSE r.obj

(***************************************************************************)
(* Python values handed to lookup as slice_mode                            *)
(***************************************************************************)
PyStr(s) == [type |-> "str", s |-> s]
PyInt(n) == [type |-> "int", i |-> n]
PyFloat(f) == [type |-> "float", f |-> f]
PyList(e) == [type |-> "list", elems |-> e]
PyTuple(e) == [type |-> "tuple", elems |-> e]
PyFrequency(r) == [type |-> "Frequency", ref |-> r]
PyOther(t) == [type |-> t]

(***************************************************************************)
(* Text helpers: str.split, int(), "%02d"                                  *)
(***************************************************************************)
digits == <<"0","1","2","3","4","5","6","7","8","9">>

is_digit(c) == index_of(digits, c) > 0

RECURSIVE parse_int(_)
parse_int(s) ==
  IF s = <<>> THEN 0
  ELSE 10 * parse_int(SubSeq(s, 1, Len(s) - 1)) + (index_of(digits, s[Len(s)]) - 1)

two_digits(n) == <<digits[(n \div 10) + 1], digits[(n % 10) + 1]>>

RECURSIVE split(_, _)
split(s, sep) ==
  IF \E i \in DOMAIN s : s[i] = sep
  THEN LET i == CHOOSE j \in DOMAIN s : s[j] = sep /\ \A k \in 1..(j - 1) : s[k] # sep
       IN <<SubSeq(s, 1, i - 1)>> \o split(SubSeq(s, i + 1, Len(s)), sep)
  ELSE <<s>>

(***************************************************************************)
(* pandas.tseries.frequencies.to_offset, for the rules <n><unit> with unit *)
(* one of H, D, MS, YS; any other text is not a frequency (ValueError)     *)
(***************************************************************************)
offset_units == {<<"H">>, <<"D">>, <<"M","S">>, <<"Y","S">>}

leading_digits(s) ==
  CHOOSE n \in 0..Len(s) :
    /\ \A i \in 1..n : is_digit(s[i])
    /\ (n < Len(s) => ~is_digit(s[n + 1]))

to_offset(freq) ==
  LET k == leading_digits(freq)
      unit == SubSeq(freq, k + 1, Len(freq))
      n == IF k = 0 THEN 1 ELSE parse_int(SubSeq(freq, 1, k))
  IN IF unit \in offset_units
     THEN Return([n |-> n, unit |-> unit])
     ELSE Raise("ValueError")

(***************************************************************************)
(* _get_frequency_from_string                                              *)
(***************************************************************************)
\* first_match comparing the accepted values as written, not upper-cased
RECURSIVE first_match_case_sensitive(_, _, _)
first_match_case_sensitive(cat, i, query_upper) ==
  IF i > Len(cat) THEN 0
  ELSE IF \/ key_str[cat[i].key] = query_upper
          \/ \E j \in DOMAIN cat[i].value.accepted_values :
                cat[i].value.accepted_values[j] = query_upper
       THEN i
       ELSE first_match_case_sensitive(cat, i + 1, query_upper)

\* the loop over FrequencyRegistry.catalog().items(): the first entry whose
\* key or one of whose upper-cased accepted values is query.upper(), else 0
RECURSIVE first_match(_, _, _)
first_match(cat, i, query_upper) ==
  IF i > Len(cat) THEN 0
  ELSE IF \/ key_str[cat[i].key] = query_upper
          \/ \E j \in DOMAIN cat[i].value.accepted_values :
                upper(cat[i].value.accepted_values[j]) = query_upper
       THEN i
       ELSE first_match(cat, i + 1, query_upper)

_get_frequency_from_string(cls, query) ==
  LET cat == catalog(cls)
      found == first_match(cat, 1, upper(query))
  IN IF found > 0 THEN Return(AttrRef(cat[found].key))
     ELSE IF to_offset(query).status = "raise"
     THEN Raise("InvalidIcclimArgumentError")
     ELSE Return(NewObj(
            Frequency(query, <<>>,
                      FString("time series sampled on {query}", <<query>>),
                      _get_time_bounds_updater(query),
                      query, NoneVal, NoneVal)))

(***************************************************************************)
(* _is_season_valid                                                        *)
(***************************************************************************)
\* _is_season_valid_loop accepting any increase between neighbours
RECURSIVE _is_season_valid_loop_any_increase(_, _, _)
_is_season_valid_loop_any_increase(months, i, is_valid) ==
  IF i > Len(months) - 1 THEN is_valid
  ELSE LET in_range == is_valid /\ months[i] > 0 /\ months[i] < 13
           step == IF months[i] > months[i + 1]
                   THEN in_range /\ months[i + 1] = 1 /\ months[i] = 12
                   ELSE in_range /\ (months[i + 1] - months[i] >= 1)
       IN _is_season_valid_loop_any_increase(months, i + 1, step)

RECURSIVE _is_season_valid_loop(_, _, _)
_is_season_valid_loop(months, i, is_valid) ==
  IF i > Len(months) - 1 THEN is_valid
  ELSE LET in_range == is_valid /\ months[i] > 0 /\ months[i] < 13
           step == IF months[i] > months[i + 1]
                   THEN in_range /\ months[i + 1] = 1 /\ months[i] = 12
                   ELSE in_range /\ (months[i + 1] - months[i] = 1)
       IN _is_season_valid_loop(months, i + 1, step)

_is_season_valid(months) == _is_season_valid_loop(months, 1, TRUE)

(***************************************************************************)
(* icclim.utils.read_date: "<day> <month name>" to (month, day); a text    *)
(* that is not a date raises InvalidIcclimArgumentError                    *)
(***************************************************************************)
month_names ==
  << <<"j","a","n","u","a","r","y">>, <<"f","e","b","r","u","a","r","y">>,
     <<"m","a","r","c","h">>, <<"a","p","r","i","l">>, <<"m","a","y">>,
     <<"j","u","n","e">>, <<"j","u","l","y">>, <<"a","u","g","u","s","t">>,
     <<"s","e","p","t","e","m","b","e","r">>, <<"o","c","t","o","b","e","r">>,
     <<"n","o","v","e","m","b","e","r">>, <<"d","e","c","e","m","b","e","r">> >>

longest_month == <<31, 29, 31, 30, 31, 30, 31, 31, 30, 31, 30, 31>>

read_date(date_string) ==
  LET parts == split(date_string, " ")
      ok == /\ Len(parts) = 2
            /\ parts[1] # <<>>
            /\ \A i \in DOMAIN parts[1] : is_digit(parts[1][i])
            /\ index_of(month_names, lower(parts[2])) > 0
      month == index_of(month_names, lower(parts[2]))
      day == parse_int(parts[1])
  IN IF ok /\ day >= 1 /\ day <= longest_month[month]
     THEN Return([month |-> month, day |-> day])
     ELSE Raise("InvalidIcclimArgumentError")

\* datetime.strftime("%m-%d")
strftime_m_d(date) == two_digits(date.month) \o <<"-">> \o two_digits(date.day)

(***************************************************************************)
(* _build_frequency_filtered_by_month                                      *)
(***************************************************************************)
_build_frequency_filtered_by_month(months) ==
  Return(NewObj(
    Frequency(<<"M","S">>, <<>>,
              FString("monthly time series (months: {months})", <<months>>),
              _get_time_bounds_updater(<<"M","S">>),
              Text("months"), dict_month(months), NoneVal)))

(***************************************************************************)
(* _build_seasonal_frequency_between_dates                                 *)
(***************************************************************************)
_build_seasonal_frequency_between_dates(season, clipped) ==
  IF Len(season.elems) # 2 THEN Raise("InvalidIcclimArgumentError")
  ELSE
  LET begin_read == read_date(season.elems[1].s)
      end_read == read_date(season.elems[2].s)
  IN IF begin_read.status = "raise" THEN begin_read
     ELSE IF end_read.status = "raise" THEN end_read
     ELSE
     LET begin_date == begin_read.value
         end_date == end_read.value
         begin_formatted == strftime_m_d(begin_date)
         end_formatted == strftime_m_d(end_date)
         indexer == IF clipped THEN NoneVal
                    ELSE dict_date_bounds(begin_formatted, end_formatted)
         time_clipping ==
           IF clipped
           THEN _get_filter_between_dates(begin_formatted, end_formatted)
           ELSE NoneVal
     IN Return(NewObj(
          Frequency(<<"A","S","-">> \o MONTHS_MAP[begin_date.month], <<>>,
                    FString("seasonal time series (season: from {begin_formatted} to {end_formatted})",
                            <<begin_formatted, end_formatted>>),
                    get_seasonal_time_updater(begin_date.month, end_date.month,
                                              begin_date.day, end_date.day),
                    FString("{MONTHS_MAP[begin_date.month]}_{MONTHS_MAP[end_date.month]}_seasons",
                            <<MONTHS_MAP[begin_date.month],
                              MONTHS_MAP[end_date.month]>>),
                    indexer, time_clipping)))

(***************************************************************************)
(* _build_seasonal_frequency_for_months                                    *)
(***************************************************************************)
\* the months of a list of Python ints
ints(l) == [i \in DOMAIN l.elems |-> l.elems[i].i]

_build_seasonal_frequency_for_months(season_arg, clipped) ==
  IF season_arg.type = "tuple" /\ Len(season_arg.elems) < 2
  THEN Raise("IndexError")
  ELSE
  LET season == IF season_arg.type = "tuple"
                THEN ints(season_arg.elems[1]) \o ints(season_arg.elems[2])
                ELSE ints(season_arg)
  IN IF ~_is_season_valid(season) THEN Raise("InvalidIcclimArgumentError")
     ELSE IF season = <<>> THEN Raise("IndexError")
     ELSE IF season[1] \notin DOMAIN MONTHS_MAP
             \/ season[Len(season)] \notin DOMAIN MONTHS_MAP
     THEN Raise("KeyError")
     ELSE
     LET indexer == IF clipped THEN NoneVal ELSE dict_month(season)
         time_clipping == IF clipped THEN _get_month_filter(season) ELSE NoneVal
     IN Return(NewObj(
          Frequency(<<"A","S","-">> \o MONTHS_MAP[season[1]], <<>>,
                    FString("seasonal time series (season: {season})", <<season>>),
                    get_seasonal_time_updater(season[1], season[Len(season)],
                                              1, None_day),
                    FString("{MONTHS_MAP[season[0]]}_{MONTHS_MAP[season[-1]]}_seasons",
                            <<MONTHS_MAP[season[1]],
                              MONTHS_MAP[season[Len(season)]]>>),
                    indexer, time_clipping)))

(***************************************************************************)
(* _build_seasonal_freq                                                    *)
(***************************************************************************)
\* _build_seasonal_freq dropping the clipped flag
_build_seasonal_freq_never_clipped(season, clipped) ==
  IF season.type \notin {"list", "tuple"} THEN Raise("TypeError")
  ELSE IF season.elems = <<>> THEN Raise("IndexError")
  ELSE IF season.elems[1].type = "str"
  THEN _build_seasonal_frequency_between_dates(season, FALSE)
  ELSE IF season.type = "tuple" \/ season.elems[1].type = "int"
  THEN _build_seasonal_frequency_for_months(season, FALSE)
  ELSE Raise("NotImplementedError")

_build_seasonal_freq(season, clipped) ==
  IF season.type \notin {"list", "tuple"} THEN Raise("TypeError")
  ELSE IF season.elems = <<>> THEN Raise("IndexError")
  ELSE IF season.elems[1].type = "str"
  THEN _build_seasonal_frequency_between_dates(season, clipped)
  ELSE IF season.type = "tuple" \/ season.elems[1].type = "int"
  THEN _build_seasonal_frequency_for_months(season, clipped)
  ELSE Raise("NotImplementedError")

(***************************************************************************)
(* _get_frequency_from_iterable                                            *)
(***************************************************************************)
kw_month == PyStr(<<"m","o","n","t","h">>)
kw_months == PyStr(<<"m","o","n","t","h","s">>)
kw_season == PyStr(<<"s","e","a","s","o","n">>)
kw_clipped_season ==
  PyStr(<<"c","l","i","p","p","e","d","_","s","e","a","s","o","n">>)

_get_frequency_from_iterable(slice_mode_list) ==
  IF Len(slice_mode_list.elems) < 2 THEN Raise("InvalidIcclimArgumentError")
  ELSE
  LET freq_keyword == slice_mode_list.elems[1] IN
  IF freq_keyword \in {kw_month, kw_months}
  THEN _build_frequency_filtered_by_month(slice_mode_list.elems[2])
  ELSE IF freq_keyword = kw_season
  THEN _build_seasonal_freq(slice_mode_list.elems[2], FALSE)
  ELSE IF freq_keyword = kw_clipped_season
  THEN _build_seasonal_freq(slice_mode_list.elems[2], TRUE)
  ELSE Raise("InvalidIcclimArgumentError")

(***************************************************************************)
(* FrequencyRegistry.lookup: the class namespace after the call and what   *)
(* the call returned or raised                                             *)
(***************************************************************************)
\* lookup keeping the Frequency it built as the attribute CUSTOM of the class
lookup_registering_custom(cls, item, no_error) ==
  LET ret == IF item.type = "Frequency" THEN Return(item.ref)
             ELSE IF item.type = "str" THEN _get_frequency_from_string(cls, item.s)
             ELSE IF item.type \in {"list", "tuple"}
             THEN _get_frequency_from_iterable(item)
             ELSE IF no_error THEN Return(NoneVal)
             ELSE Raise("InvalidIcclimArgumentError")
  IN IF ret.status = "return" /\ ret.value # NoneVal /\ ret.value.ref = "new"
     THEN [cls |-> Append(SelectSeq(cls, LAMBDA e : e.key # "CUSTOM"),
                          [key |-> "CUSTOM", value |-> ret.value.obj]),
           ret |-> Return(AttrRef("CUSTOM"))]
     ELSE [cls |-> cls, ret |-> ret]

lookup(cls, item, no_error) ==
  [cls |-> cls,
   ret |-> IF item.type = "Frequency" THEN Return(item.ref)
           ELSE IF item.type = "str" THEN _get_frequency_from_string(cls, item.s)
           ELSE IF item.type \in {"list", "tuple"}
           THEN _get_frequency_from_iterable(item)
           ELSE IF no_error THEN Return(NoneVal)
           ELSE Raise("InvalidIcclimArgumentError")]

(***************************************************************************)
(* Calendar arithmetic of pandas.Timestamp (proleptic_gregorian) and of    *)
(* cftime.datetime (standard, noleap, 360_day)                             *)
(***************************************************************************)
hour == 60 \div 30
day_ticks == 24 * hour

cftime_calendars == {"standard", "noleap", "360_day"}

is_leap_year(calendar, y) ==
  /\ calendar \in {"standard", "proleptic_gregorian"}
  /\ y % 4 = 0
  /\ (y % 100 # 0 \/ y % 400 = 0)

days_in_month(calendar, y, m) ==
  IF calendar = "360_day" THEN 30
  ELSE IF m = 2 THEN (IF is_leap_year(calendar, y) THEN 29 ELSE 28)
  ELSE <<31, 28, 31, 30, 31, 30, 31, 31, 30, 31, 30, 31>>[m]

leap_years_before(y) == ((y - 1) \div 4) - ((y - 1) \div 100) + ((y - 1) \div 400)

days_before_year(calendar, y) ==
  IF calendar = "360_day" THEN 360 * (y - 2000)
  ELSE IF calendar = "noleap" THEN 365 * (y - 2000)
  ELSE 365 * (y - 2000) + leap_years_before(y) - leap_years_before(2000)

RECURSIVE days_before_month(_, _, _)
days_before_month(calendar, y, m) ==
  IF m = 1 THEN 0
  ELSE days_before_month(calendar, y, m - 1) + days_in_month(calendar, y, m - 1)

is_valid_date(calendar, y, m, d) ==
  /\ m \in 1..12
  /\ d >= 1
  /\ d <= days_in_month(calendar, y, m)

\* cftime.datetime(y, m, d, calendar=...) and pd.to_datetime("y-m-d")
datetime(calendar, y, m, d) ==
  IF is_valid_date(calendar, y, m, d)
  THEN Return((days_before_year(calendar, y)
               + days_before_month(calendar, y, m) + (d - 1)) * day_ticks)
  ELSE Raise("ValueError")

\* the fields .year, .month, .day and the time of day of an instant
year_of(calendar, t) ==
  LET n == t \div day_ticks
      guess == 2000 + (n \div 366)
  IN CHOOSE y \in (guess - 1)..(guess + 2) :
       /\ days_before_year(calendar, y) <= n
       /\ n < days_before_year(calendar, y + 1)

month_of(calendar, t) ==
  LET y == year_of(calendar, t)
      n == (t \div day_ticks) - days_before_year(calendar, y)
  IN CHOOSE m \in 1..12 :
       /\ days_before_month(calendar, y, m) <= n
       /\ n < days_before_month(calendar, y, m) + days_in_month(calendar, y, m)

day_of(calendar, t) ==
  LET y == year_of(calendar, t)
  IN (t \div day_ticks) - days_before_year(calendar, y)
       - days_before_month(calendar, y, month_of(calendar, t)) + 1

time_of_day(t) == t % day_ticks

\* Timestamp.floor("D")
floor_D(t) == t - time_of_day(t)

\* instant + offset, for pandas offsets and for xarray's cftime offsets:
\* Hour and Day are fixed spans, MonthBegin and YearBegin roll to the first
\* day of the n-th following month or year and keep the time of day
add_offset(calendar, t, offset) ==
  LET y == year_of(calendar, t)
      m == month_of(calendar, t)
  IN CASE offset.unit = <<"H">> -> t + offset.n * hour
       [] offset.unit = <<"D">> -> t + offset.n * day_ticks
       [] offset.unit = <<"M","S">> ->
            LET months == (m - 1) + offset.n
            IN datetime(calendar, y + (months \div 12), (months % 12) + 1, 1).value
                 + time_of_day(t)
       [] offset.unit = <<"Y","S">> ->
            datetime(calendar, y + offset.n, 1, 1).value + time_of_day(t)

calendar_of(da) ==
  IF da.index = "CFTimeIndex" THEN da.calendar ELSE "proleptic_gregorian"

(***************************************************************************)
(* _get_end_date                                                           *)
(***************************************************************************)
\* _get_end_date that does not step back from the first day of the next month
_get_end_date_no_delta(use_cftime, year, month, day_arg, calendar) ==
  LET roll == day_arg = None_day /\ month # 12
      day == IF day_arg # None_day THEN day_arg
             ELSE IF month = 12 THEN 31 ELSE 1
      month2 == IF roll THEN month + 1 ELSE month
      end == IF use_cftime
             THEN datetime(calendar, year, month2, day)
             ELSE datetime("proleptic_gregorian", year, month2, day)
  IN end

_get_end_date(use_cftime, year, month, day_arg, calendar) ==
  LET roll == day_arg = None_day /\ month # 12
      day == IF day_arg # None_day THEN day_arg
             ELSE IF month = 12 THEN 31 ELSE 1
      month2 == IF roll THEN month + 1 ELSE month
      delta == IF roll THEN day_ticks ELSE 0
      end == IF use_cftime
             THEN datetime(calendar, year, month2, day)
             ELSE datetime("proleptic_gregorian", year, month2, day)
  IN IF end.status = "raise" THEN end ELSE Return(end.value - delta)

(***************************************************************************)
(* get_seasonal_time_updater.add_time_bounds                               *)
(***************************************************************************)
\* np.unique: the distinct values in ascending order
RECURSIVE unique(_)
unique(S) ==
  IF S = {} THEN <<>>
  ELSE LET lo == CHOOSE x \in S : \A z \in S : x <= z
       IN <<lo>> \o unique(S \ {lo})

\* season_of_year ending every season in the following year
season_of_year_ends_next_year(p, da, year) ==
  LET use_cftime == da.index = "CFTimeIndex"
      year_of_season_end == year + 1
      start == IF use_cftime
               THEN datetime(da.calendar, year, p.start_month, p.start_day)
               ELSE datetime("proleptic_gregorian", year, p.start_month, p.start_day)
      end == _get_end_date(use_cftime, year_of_season_end, p.end_month,
                           p.end_day, da.calendar)
  IN IF start.status = "raise" THEN start
     ELSE IF end.status = "raise" THEN end
     ELSE Return([time |-> start.value + ((end.value - start.value) \div 2),
                  bounds |-> <<start.value, end.value>>])

season_of_year(p, da, year) ==
  LET use_cftime == da.index = "CFTimeIndex"
      year_of_season_end == IF p.start_month > p.end_month THEN year + 1 ELSE year
      start == IF use_cftime
               THEN datetime(da.calendar, year, p.start_month, p.start_day)
               ELSE datetime("proleptic_gregorian", year, p.start_month, p.start_day)
      end == _get_end_date(use_cftime, year_of_season_end, p.end_month,
                           p.end_day, da.calendar)
  IN IF start.status = "raise" THEN start
     ELSE IF end.status = "raise" THEN end
     ELSE Return([time |-> start.value + ((end.value - start.value) \div 2),
                  bounds |-> <<start.value, end.value>>])

RECURSIVE seasonal_loop(_, _, _, _, _, _)
seasonal_loop(p, da, da_years, i, new_time_axis, time_bounds) ==
  IF i > Len(da_years)
  THEN Return([new_time_axis |-> new_time_axis, time_bounds |-> time_bounds])
  ELSE LET r == season_of_year(p, da, da_years[i])
       IN IF r.status = "raise" THEN r
          ELSE seasonal_loop(p, da, da_years, i + 1,
                             Append(new_time_axis, r.value.time),
                             Append(time_bounds, r.value.bounds))

seasonal_add_time_bounds(p, da) ==
  LET da_years == unique({year_of(calendar_of(da), da.time[i]) : i \in DOMAIN da.time})
  IN IF da.time = <<>> THEN Raise("IndexError")
     ELSE LET r == seasonal_loop(p, da, da_years, 1, <<>>, <<>>)
          IN IF r.status = "raise" THEN r
             ELSE IF Len(r.value.new_time_axis) # Len(da.time)
             THEN Raise("ValueError")
             ELSE Return([da |-> [da EXCEPT !.time = r.value.new_time_axis],
                          time_bounds |-> r.value.time_bounds])

(***************************************************************************)
(* _get_time_bounds_updater.add_time_bounds                                *)
(***************************************************************************)
\* cftime.datetime(date.year, date.month, date.day, date.hour, date.minute,
\*                 date.second, calendar=date.calendar)
cftime_rebuild(calendar, t) ==
  datetime(calendar, year_of(calendar, t), month_of(calendar, t),
           day_of(calendar, t)).value + time_of_day(t)

regular_add_time_bounds(p, da) ==
  LET offset == to_offset(p.freq)
      cal == calendar_of(da)
      starts == IF da.index = "CFTimeIndex"
                THEN [i \in DOMAIN da.time |-> cftime_rebuild(cal, da.time[i])]
                ELSE [i \in DOMAIN da.time |-> floor_D(da.time[i])]
      ends == [i \in DOMAIN starts |->
                 add_offset(cal, starts[i], offset.value) - day_ticks]
  IN IF offset.status = "raise" THEN offset
     ELSE Return([da |-> [da EXCEPT !.time =
                            [i \in DOMAIN starts |->
                               starts[i] + ((ends[i] - starts[i]) \div 2)]],
                  time_bounds |-> [i \in DOMAIN starts |-> <<starts[i], ends[i]>>]])

\* calling the post_processing closure of a Frequency
post_processing(p, da) ==
  IF p.fn = "get_seasonal_time_updater.add_time_bounds"
  THEN seasonal_add_time_bounds(p, da)
  ELSE regular_add_time_bounds(p, da)

(***************************************************************************)
(* Frequency.description, Frequency.build_frequency_kwargs and             *)
(* Frequency.is_seasonal.  A method returns the object after the call      *)
(* (self) and what it returned or raised.                                  *)
(***************************************************************************)
FREQ_MAPPING ==
  << << <<"Y","S">>, "annual" >>, << <<"Y">>, "annual" >>,
     << <<"A","S">>, "annual" >>, << <<"A">>, "annual" >>,
     << <<"M","S">>, "monthly" >>, << <<"M">>, "monthly" >>,
     << <<"Q","S">>, "seasonal" >>, << <<"Q">>, "seasonal" >>,
     << <<"J","A","N">>, "January starting" >>,
     << <<"F","E","B">>, "February starting" >>,
     << <<"M","A","R">>, "March starting" >>,
     << <<"A","P","R">>, "April starting" >>,
     << <<"M","A","Y">>, "May starting" >>,
     << <<"J","U","N">>, "June starting" >>,
     << <<"J","U","L">>, "July starting" >>,
     << <<"A","U","G">>, "August starting" >>,
     << <<"S","E","P">>, "September starting" >>,
     << <<"O","C","T">>, "October starting" >>,
     << <<"N","O","V">>, "November starting" >>,
     << <<"D","E","C">>, "December starting" >>,
     << <<"D","J","F">>, "winter" >>, << <<"M","A","M">>, "spring" >>,
     << <<"J","J","A">>, "summer" >>, << <<"S","O","N">>, "fall" >>,
     << <<"n","o","r","m">>, "Normal" >>,
     << <<"m","1">>, "january" >>, << <<"m","2">>, "february" >>,
     << <<"m","3">>, "march" >>, << <<"m","4">>, "april" >>,
     << <<"m","5">>, "may" >>, << <<"m","6">>, "june" >>,
     << <<"m","7">>, "july" >>, << <<"m","8">>, "august" >>,
     << <<"m","9">>, "september" >>, << <<"m","1","0">>, "october" >>,
     << <<"m","1","1">>, "november" >>, << <<"m","1","2">>, "december" >> >>

in_FREQ_MAPPING(f) == \E i \in DOMAIN FREQ_MAPPING : FREQ_MAPPING[i][1] = f
get_FREQ_MAPPING(f) ==
  FREQ_MAPPING[CHOOSE i \in DOMAIN FREQ_MAPPING : FREQ_MAPPING[i][1] = f][2]

description(self) ==
  [self |-> self,
   ret |-> IF self._description.fmt # "" THEN Return(self._description)
           ELSE LET parts == split(self.pandas_freq, "-")
                IN IF \E i \in DOMAIN parts : ~in_FREQ_MAPPING(parts[i])
                   THEN Raise("KeyError")
                   ELSE Return(FString("",
                          [i \in DOMAIN parts |-> get_FREQ_MAPPING(parts[i])]))]

build_frequency_kwargs_updating_indexer(self) ==
  LET kwargs == [freq |-> self.pandas_freq]
  IN IF self.indexer # NoneVal
     THEN [self |-> [self EXCEPT !.indexer = kwargs @@ self.indexer],
           ret |-> Return(kwargs @@ self.indexer)]
     ELSE [self |-> self, ret |-> Return(kwargs)]

build_frequency_kwargs(self) ==
  LET kwargs == [freq |-> self.pandas_freq]
  IN [self |-> self,
      ret |-> Return(IF self.indexer # NoneVal
                     THEN self.indexer @@ kwargs
                     ELSE kwargs)]

\* dataclass __eq__ behind the `in` of is_seasonal: the same object, or
\* equal fields compared in declaration order
Frequency_eq(cls, a, b) ==
  \/ a = b
  \/ /\ deref(cls, a).pandas_freq = deref(cls, b).pandas_freq
     /\ deref(cls, a).accepted_values = deref(cls, b).accepted_values
     /\ deref(cls, a)._description = deref(cls, b)._description
     /\ deref(cls, a).post_processing = deref(cls, b).post_processing
     /\ deref(cls, a).units = deref(cls, b).units
     /\ deref(cls, a).indexer = deref(cls, b).indexer
     /\ deref(cls, a).time_clipping = deref(cls, b).time_clipping

is_seasonal(cls, slice_mode) ==
  LET r == lookup(cls, slice_mode, FALSE)
  IN [cls |-> r.cls,
      ret |-> IF r.ret.status = "raise" THEN r.ret
              ELSE Return(\E k \in {"ONDJFM", "AMJJAS", "MAM", "JJA", "SON", "DJF"} :
                            Frequency_eq(r.cls, r.ret.value, AttrRef(k)))]

(***************************************************************************)
(* Inputs                                                                  *)
(***************************************************************************)
MonthVals == {0, 1, 2, 3, 12, 13}

month_list(q) == PyList([i \in DOMAIN q |-> PyInt(q[i])])

\* every list of at most MaxSeasonLen months
IntLists ==
  {month_list(q) : q \in UNION {[1..n -> MonthVals] : n \in 1..MaxSeasonLen}}

\* month lists that run through a whole year: December to December and a
\* month more, January to January, and the twelve months
LongSeasons ==
  {month_list(q) :
     q \in {<<12, 1, 2, 3, 4, 5, 6, 7, 8, 9, 10, 11, 12, 1>>,
            <<12, 1, 2, 3, 4, 5, 6, 7, 8, 9, 10, 11, 12>>,
            <<1, 2, 3, 4, 5, 6, 7, 8, 9, 10, 11, 12, 1>>,
            <<1, 2, 3, 4, 5, 6, 7, 8, 9, 10, 11, 12>>}}

july_10 == PyStr(<<"1","0"," ","j","u","l","y">>)
july_20 == PyStr(<<"2","0"," ","j","u","l","y">>)
february_29 == PyStr(<<"2","9"," ","F","e","b","r","u","a","r","y">>)
not_a_date == PyStr(<<"s","o","o","n">>)

DateTexts == {july_10, july_20, february_29, not_a_date}

DateLists ==
  {PyList(q) : q \in UNION {[1..n -> DateTexts] : n \in 1..2}}
    \cup {PyList(<<july_10, july_10, july_10>>)}

OddPayloads ==
  {PyList(<<>>), PyList(<<PyFloat("6.5"), PyFloat("7.5")>>), PyInt(6),
   PyTuple(<<month_list(<<12>>), month_list(<<1, 2>>)>>),
   PyTuple(<<month_list(<<1, 3>>), month_list(<<2>>)>>)}

MonthPayloads ==
  {PyList(<<>>), month_list(<<6>>), month_list(<<1, 2>>), month_list(<<13>>)}

AllAliases ==
  UNION {SeqToSet(catalog(ClassNamespace)[i].value.accepted_values) :
           i \in DOMAIN catalog(ClassNamespace)}

CatalogKeyStrings ==
  {key_str[catalog(ClassNamespace)[i].key] : i \in DOMAIN catalog(ClassNamespace)}

RawRules == {<<"2","D">>, <<"3","M","S">>, <<"f","o","o">>, <<>>}

QueryStrings ==
  UNION {{a, upper(a), lower(a)} : a \in AllAliases}
    \cup UNION {{k, lower(k)} : k \in CatalogKeyStrings}
    \cup RawRules

ShortSequences ==
  {PyList(<<>>), PyList(<<kw_season>>), PyTuple(<<kw_month>>),
   PyList(<<PyStr(<<"y","e","a","r">>), month_list(<<1, 2>>)>>),
   month_list(<<1, 2>>)}

OtherItems == {PyOther("int"), PyOther("NoneType"), PyOther("dict")}

CatalogRefs ==
  {AttrRef(catalog(ClassNamespace)[i].key) : i \in DOMAIN catalog(ClassNamespace)}

\* the slice modes that lookup is applied to one by one
LookupItems ==
  {PyStr(q) : q \in QueryStrings}
    \cup {PyList(<<k, pl>>) : k \in {kw_month, kw_months}, pl \in MonthPayloads}
    \cup {PyList(<<k, pl>>) : k \in {kw_season, kw_clipped_season},
                              pl \in IntLists \cup LongSeasons \cup DateLists
                                       \cup OddPayloads}
    \cup {PyTuple(<<kw_season, month_list(<<1, 2>>)>>)}
    \cup ShortSequences \cup OtherItems
    \cup {PyFrequency(r) : r \in CatalogRefs}

\* the slice modes of a caller's session
SessionSeasons ==
  {month_list(q) : q \in {<<12, 1, 2>>, <<12>>, <<1, 2>>, <<6, 7, 8>>, <<1, 3, 2>>}}
    \cup {PyList(<<july_10, july_20>>), PyList(<<july_20, july_10>>),
          PyList(<<february_29, july_20>>),
          PyTuple(<<month_list(<<12>>), month_list(<<1, 2>>)>>)}

Items ==
  {PyStr(lower(k)) : k \in CatalogKeyStrings}
    \cup {PyStr(<<"2","D">>), PyStr(<<"f","o","o">>)}
    \cup {PyList(<<kw_month, month_list(<<6>>)>>)}
    \cup {PyList(<<k, pl>>) : k \in {kw_season, kw_clipped_season},
                              pl \in SessionSeasons}
    \cup {PyOther("int"), PyFrequency(AttrRef("DJF"))}

HeldItems == IF held = NoneVal THEN {} ELSE {PyFrequency(held)}

IsSeasonalItems ==
  {PyStr(key_str["MONTH"]), PyStr(key_str["DJF"]),
   PyList(<<kw_season, month_list(<<12, 1, 2>>)>>),
   PyStr(<<"f","o","o">>), PyOther("int")}

\* the time axes that resampling to a frequency yields ("da should already
\* be resampled to freq"): period starts, in increasing order
Years == 2000..(2000 + MaxYearSpan - 1)

resample_grid(calendar, pandas_freq) ==
  LET parts == split(pandas_freq, "-")
      at(y, m, d) == datetime(calendar, y, m, d).value
  IN IF Len(parts) = 2
     THEN {at(y, index_of(MONTHS_MAP, parts[2]), 1) : y \in Years}
     ELSE LET unit == to_offset(pandas_freq).value.unit
          IN CASE unit = <<"H">> ->
                    {at(y, 1, 1) : y \in Years} \cup {at(2000, 1, 1) + 5 * hour}
               [] unit = <<"D">> ->
                    {at(y, 1, 1) : y \in Years} \cup {at(2000, 12, 30)}
               [] unit = <<"M","S">> ->
                    {at(y, 1, 1) : y \in Years} \cup {at(2000, 12, 1)}
               [] unit = <<"Y","S">> -> {at(y, 1, 1) : y \in Years}

Axes(calendar, pandas_freq) ==
  {q \in UNION {[1..n -> resample_grid(calendar, pandas_freq)] : n \in 1..MaxAxisLen} :
     \A i \in 1..(Len(q) - 1) : q[i] < q[i + 1]}

Resampled(pandas_freq) ==
  {[index |-> "DatetimeIndex", calendar |-> "proleptic_gregorian", time |-> q] :
     q \in Axes("proleptic_gregorian", pandas_freq)}
    \cup UNION {{[index |-> "CFTimeIndex", calendar |-> c, time |-> q] :
                   q \in Axes(c, pandas_freq)} : c \in cftime_calendars}

(***************************************************************************)
(* The state machine: a caller that resolves slice modes and uses the      *)
(* Frequency it holds                                                      *)
(***************************************************************************)
\* the object behind a reference, after a method ran on it
store(cls, r, obj) ==
  IF r.ref = "FrequencyRegistry"
  THEN [i \in DOMAIN cls |->
          IF cls[i].key = r.key THEN [cls[i] EXCEPT !.value = obj] ELSE cls[i]]
  ELSE cls

rebind(r, obj) == IF r.ref = "new" THEN NewObj(obj) ELSE r

\* create_optimized_zarr_store was never called
NotCalled == [pc |-> "not called"]

Init ==
  /\ FrequencyRegistry = ClassNamespace
  /\ held = NoneVal
  /\ out = [op |-> "import"]
  /\ stores = {}
  /\ cm = NotCalled

LookupCall(item, no_error) ==
  LET r == lookup(FrequencyRegistry, item, no_error)
  IN /\ FrequencyRegistry' = r.cls
     /\ held' = IF r.ret.status = "return" THEN r.ret.value ELSE NoneVal
     /\ out' = [op |-> "lookup", item |-> item, no_error |-> no_error,
                ret |-> r.ret]
     /\ UNCHANGED rechunk_vars

Lookup ==
  \E item \in Items \cup HeldItems :
    \E no_error \in (IF item \in OtherItems THEN BOOLEAN ELSE {FALSE}) :
      LookupCall(item, no_error)

IsSeasonal ==
  \E item \in IsSeasonalItems \cup HeldItems :
    LET r == is_seasonal(FrequencyRegistry, item)
    IN /\ FrequencyRegistry' = r.cls
       /\ UNCHANGED <<held, rechunk_vars>>
       /\ out' = [op |-> "is_seasonal", item |-> item, ret |-> r.ret]

BuildFrequencyKwargs ==
  /\ held # NoneVal
  /\ LET before == deref(FrequencyRegistry, held)
         r == build_frequency_kwargs(before)
     IN /\ FrequencyRegistry' = store(FrequencyRegistry, held, r.self)
        /\ held' = rebind(held, r.self)
        /\ out' = [op |-> "build_frequency_kwargs", before |-> before,
                   ret |-> r.ret]
        /\ UNCHANGED rechunk_vars

Description ==
  /\ held # NoneVal
  /\ LET r == description(deref(FrequencyRegistry, held))
     IN /\ FrequencyRegistry' = store(FrequencyRegistry, held, r.self)
        /\ held' = rebind(held, r.self)
        /\ out' = [op |-> "description", ret |-> r.ret]
        /\ UNCHANGED rechunk_vars

PostProcessing ==
  /\ held # NoneVal
  /\ \E da \in Resampled(deref(FrequencyRegistry, held).pandas_freq) :
       /\ out' = [op |-> "post_processing", da |-> da, again |-> FALSE,
                  ret |-> post_processing(
                            deref(FrequencyRegistry, held).post_processing, da)]
       /\ UNCHANGED <<FrequencyRegistry, held, rechunk_vars>>

\* post_processing applied to the array that post_processing returned
PostProcessingAgain ==
  /\ held # NoneVal
  /\ out.op = "post_processing"
  /\ ~out.again
  /\ out.ret.status = "return"
  /\ out' = [op |-> "post_processing", da |-> out.ret.value.da, again |-> TRUE,
             first |-> out.ret.value,
             ret |-> post_processing(
                       deref(FrequencyRegistry, held).post_processing,
                       out.ret.value.da)]
  /\ UNCHANGED <<FrequencyRegistry, held, rechunk_vars>>

Next ==
  \/ Lookup
  \/ IsSeasonal
  \/ BuildFrequencyKwargs
  \/ Description
  \/ PostProcessing
  \/ PostProcessingAgain

Spec == Init /\ [][Next]_vars

(***************************************************************************)
(* lookup on its own: applied once to each slice mode                      *)
(***************************************************************************)
InitLookup ==
  /\ FrequencyRegistry = ClassNamespace
  /\ held = NoneVal
  /\ stores = {}
  /\ cm = NotCalled
  /\ out \in {[op |-> "pending", item |-> item, no_error |-> no_error] :
                item \in LookupItems, no_error \in BOOLEAN}

LookupPending ==
  /\ out.op = "pending"
  /\ LookupCall(out.item, out.no_error)

SpecLookup == InitLookup /\ [][LookupPending]_vars

(***************************************************************************)
(* icclim.pre_processing.rechunk: create_optimized_zarr_store.  stores is  *)
(* the set of zarr stores that exist on disk; cm is the frame of one use   *)
(* of the context manager: where it stands (pc), its arguments, whether    *)
(* rechunk(...).execute() returned (rechunked), the exception on its way   *)
(* out (exc, "" for none) and the step that raised it (raised_at).         *)
(* shutil.rmtree(path, ignore_errors=True) leaves no store at path.        *)
(***************************************************************************)
TMP_STORE_1 == "icclim-tmp-store-1.zarr"
TMP_STORE_2 == "icclim-tmp-store-2.zarr"

TargetNames == {"icclim-target-store.zarr", "tasmax-store.zarr"}

AllStores == {TMP_STORE_1, TMP_STORE_2} \cup TargetNames

rmtree(fs, paths) == fs \ paths

\* the generator is left by an exception: the finally clause runs next
raise_to_finally(frame, exc) ==
  [frame EXCEPT !.pc = "finally", !.exc = exc, !.raised_at = frame.pc]

\* `with create_optimized_zarr_store(...)` is evaluated; stores of an earlier
\* run may lie around
InitRechunk ==
  /\ FrequencyRegistry = ClassNamespace
  /\ held = NoneVal
  /\ out = [op |-> "import"]
  /\ stores \in SUBSET AllStores
  /\ cm \in {[pc |-> "call", target_zarr_store_name |-> t,
              keep_target_store |-> k, chunking |-> c, rechunked |-> FALSE,
              exc |-> "", raised_at |-> ""] :
               t \in TargetNames, k \in BOOLEAN, c \in {"None", "given"}}

\* __enter__ up to the call of _unsafe_create_optimized_zarr_store
Enter ==
  /\ cm.pc = "call"
  /\ stores' = rmtree(stores,
                      {TMP_STORE_1, TMP_STORE_2, cm.target_zarr_store_name})
  /\ cm' = [cm EXCEPT !.pc = "read_dataset"]
  /\ UNCHANGED frequency_vars

\* _get_mem_limit, read_dataset and drop_vars: the dataset is read, reading
\* fails, or none of var_names is in it
ReadDataset ==
  /\ cm.pc = "read_dataset"
  /\ \E result \in {"read", "OSError", "InvalidIcclimArgumentError"} :
       cm' = IF result = "read" THEN [cm EXCEPT !.pc = "chunk"]
             ELSE raise_to_finally(cm, result)
  /\ UNCHANGED <<frequency_vars, stores>>

\* ds.chunk("auto"): with no chunking asked for and time in one chunk the
\* dataset is returned as it is and no store is written
Chunk ==
  /\ cm.pc = "chunk"
  /\ \E time_chunks \in 1..2 :
       cm' = IF cm.chunking = "None" /\ time_chunks = 1
             THEN [cm EXCEPT !.pc = "body"]
             ELSE [cm EXCEPT !.pc = "to_zarr"]
  /\ UNCHANGED <<frequency_vars, stores>>

\* ds.to_zarr(TMP_STORE_1) and xr.open_zarr(TMP_STORE_1); a write that fails
\* may have created the store
ToZarr ==
  /\ cm.pc = "to_zarr"
  /\ \/ /\ stores' = stores \cup {TMP_STORE_1}
        /\ cm' = [cm EXCEPT !.pc = "rechunk"]
     \/ \E written \in SUBSET {TMP_STORE_1} :
          /\ stores' = stores \cup written
          /\ cm' = raise_to_finally(cm, "OSError")
  /\ UNCHANGED frequency_vars

\* rechunk(..., target_store, temp_store).execute(); a run that fails may
\* have created either store
Rechunk ==
  /\ cm.pc = "rechunk"
  /\ \/ /\ stores' = stores \cup {TMP_STORE_2, cm.target_zarr_store_name}
        /\ cm' = [cm EXCEPT !.pc = "consolidate", !.rechunked = TRUE]
     \/ \E written \in SUBSET {TMP_STORE_2, cm.target_zarr_store_name} :
          /\ stores' = stores \cup written
          /\ cm' = raise_to_finally(cm, "OSError")
  /\ UNCHANGED frequency_vars

\* the temporary stores are removed, then consolidate_metadata and open_zarr
\* succeed and the dataset is yielded, or one of them raises
Consolidate ==
  /\ cm.pc = "consolidate"
  /\ stores' = rmtree(stores, {TMP_STORE_1, TMP_STORE_2})
  /\ \/ cm' = [cm EXCEPT !.pc = "body"]
     \/ cm' = raise_to_finally(cm, "OSError")
  /\ UNCHANGED frequency_vars

\* the with-body runs on the yielded dataset and completes
BodyCompletes ==
  /\ cm.pc = "body"
  /\ cm' = [cm EXCEPT !.pc = "finally"]
  /\ UNCHANGED <<frequency_vars, stores>>

\* the with-body raises: the exception is thrown into the generator at yield
BodyRaises ==
  /\ cm.pc = "body"
  /\ cm' = raise_to_finally(cm, "Exception")
  /\ UNCHANGED <<frequency_vars, stores>>

Finally_only_after_yield ==
  /\ cm.pc = "finally"
  /\ stores' = IF cm.exc \in {"", "Exception"}
               THEN rmtree(stores,
                      {TMP_STORE_1, TMP_STORE_2}
                        \cup (IF cm.keep_target_store THEN {}
                              ELSE {cm.target_zarr_store_name}))
               ELSE stores
  /\ cm' = [cm EXCEPT !.pc = "exited"]
  /\ UNCHANGED frequency_vars

\* the finally clause, then the context manager has exited
Finally ==
  /\ cm.pc = "finally"
  /\ stores' = rmtree(stores,
                      {TMP_STORE_1, TMP_STORE_2}
                        \cup (IF cm.keep_target_store THEN {}
                              ELSE {cm.target_zarr_store_name}))
  /\ cm' = [cm EXCEPT !.pc = "exited"]
  /\ UNCHANGED frequency_vars

NextRechunk ==
  \/ Enter
  \/ ReadDataset
  \/ Chunk
  \/ ToZarr
  \/ Rechunk
  \/ Consolidate
  \/ BodyCompletes
  \/ BodyRaises
  \/ Finally

SpecRechunk == InitRechunk /\ [][NextRechunk]_vars

TypeOK ==
  /\ out.op \in {"import", "pending", "lookup", "is_seasonal",
                 "build_frequency_kwargs", "description", "post_processing"}
  /\ held = NoneVal \/ held.ref \in {"FrequencyRegistry", "new"}

(***************************************************************************)
(* Properties                                                              *)
(***************************************************************************)
CatalogEntries == catalog(ClassNamespace)

LookupReturned == out.op = "lookup" /\ out.ret.status = "return"

\* the slice mode of the last lookup is [keyword, list of ints]
IsMonthListSpec(keywords) ==
  /\ out.op = "lookup"
  /\ out.item.type = "list"
  /\ Len(out.item.elems) = 2
  /\ out.item.elems[1] \in keywords
  /\ out.item.elems[2].type = "list"
  /\ \A i \in DOMAIN out.item.elems[2].elems : out.item.elems[2].elems[i].type = "int"

SpecMonths == ints(out.item.elems[2])

\* C1: looking up an accepted value of a catalog Frequency, as written, in
\* upper case or in lower case, returns that very catalog object
C1_AliasesResolveToCatalogObject ==
  \A i \in DOMAIN CatalogEntries :
    \A j \in DOMAIN CatalogEntries[i].value.accepted_values :
      LET a == CatalogEntries[i].value.accepted_values[j]
      IN (/\ out.op = "lookup"
          /\ out.item.type = "str"
          /\ out.item.s \in {a, upper(a), lower(a)})
         => out.ret = Return(AttrRef(CatalogEntries[i].key))

C1_Witness ==
  /\ out.op = "lookup"
  /\ out.item = PyStr(<<"m","s">>)
  /\ out.ret = Return(AttrRef("MONTH"))
  /\ held = AttrRef("MONTH")

\* a pair of neighbours that is neither a step of one month nor December
\* followed by January
BadPair(a, b) == ~(b - a = 1) /\ ~(a = 12 /\ b = 1)

\* C2: a month list with a pair of neighbours that is neither +1 nor (12, 1)
\* is refused with InvalidIcclimArgumentError by "season" and by
\* "clipped_season"; a list of consecutive months 1..12 that wraps once from
\* 12 to 1 is accepted
C2_NonConsecutiveSeasonRefused ==
  IsMonthListSpec({kw_season, kw_clipped_season}) =>
    LET M == SpecMonths
        pairs == 1..(Len(M) - 1)
    IN /\ (\E i \in pairs : BadPair(M[i], M[i + 1]))
            => out.ret = Raise("InvalidIcclimArgumentError")
       /\ (/\ \A i \in DOMAIN M : M[i] \in 1..12
           /\ \A i \in pairs : ~BadPair(M[i], M[i + 1])
           /\ Cardinality({i \in pairs : M[i] = 12 /\ M[i + 1] = 1}) = 1)
            => out.ret.status = "return"

C2_Witness ==
  /\ IsMonthListSpec({kw_clipped_season})
  /\ SpecMonths = <<1, 3, 2>>
  /\ out.ret = Raise("InvalidIcclimArgumentError")

C2_WitnessWrap ==
  /\ IsMonthListSpec({kw_season})
  /\ SpecMonths = <<12, 1, 2>>
  /\ out.ret.status = "return"

\* C3: a "season" month list with a month outside 1..12 at any position
\* raises InvalidIcclimArgumentError
C3_OutOfRangeMonthRefused ==
  (/\ IsMonthListSpec({kw_season})
   /\ \E i \in DOMAIN SpecMonths : SpecMonths[i] \notin 1..12)
    => out.ret = Raise("InvalidIcclimArgumentError")

\* the slice mode of the last lookup is a sequence that starts with keyword
HasKeyword(keyword) ==
  /\ out.op = "lookup"
  /\ out.item.type \in {"list", "tuple"}
  /\ Len(out.item.elems) >= 2
  /\ out.item.elems[1] = keyword

\* C4: no Frequency that lookup returns has both an indexer and a
\* time_clipping; "clipped_season" gives a time_clipping and no indexer,
\* "season" an indexer and no time_clipping, HOUR, DAY, MONTH, YEAR and the
\* raw-rule frequencies neither
C4_IndexerExcludesClipping ==
  (LookupReturned /\ out.ret.value # NoneVal) =>
    LET f == deref(FrequencyRegistry, out.ret.value)
    IN /\ ~(f.indexer # NoneVal /\ f.time_clipping # NoneVal)
       /\ HasKeyword(kw_clipped_season)
            => (f.time_clipping # NoneVal /\ f.indexer = NoneVal)
       /\ HasKeyword(kw_season)
            => (f.indexer # NoneVal /\ f.time_clipping = NoneVal)
       /\ (\/ out.ret.value \in {AttrRef("HOUR"), AttrRef("DAY"),
                                 AttrRef("MONTH"), AttrRef("YEAR")}
           \/ (out.item.type = "str" /\ out.ret.value.ref = "new"))
            => (f.indexer = NoneVal /\ f.time_clipping = NoneVal)

C4_Witness ==
  /\ LookupReturned
  /\ HasKeyword(kw_clipped_season)
  /\ out.item.elems[2].elems[1].type = "str"
  /\ deref(FrequencyRegistry, out.ret.value).time_clipping # NoneVal
  /\ deref(FrequencyRegistry, out.ret.value).indexer = NoneVal

HeldFrequency == deref(FrequencyRegistry, held)

\* a first application of a post_processing closure to a resampled array
PostProcessed(fn) ==
  /\ out.op = "post_processing"
  /\ ~out.again
  /\ held # NoneVal
  /\ HeldFrequency.post_processing.fn = fn

InputYears ==
  unique({year_of(calendar_of(out.da), out.da.time[i]) : i \in DOMAIN out.da.time})

\* the season of year Y as the claim describes it: <<start, end, time>>
SeasonOfYear(p, calendar, Y) ==
  LET end_year == IF p.start_month > p.end_month THEN Y + 1 ELSE Y
      last_day == IF p.end_day # None_day THEN p.end_day
                  ELSE days_in_month(calendar, end_year, p.end_month)
      start == datetime(calendar, Y, p.start_month, p.start_day).value
      end == datetime(calendar, end_year, p.end_month, last_day).value
  IN <<start, end, start + ((end - start) \div 2)>>

\* C5: the seasonal post-processing emits, for each distinct year Y of the
\* time axis in ascending order, the bounds (date(Y, start_month, start_day),
\* end) with end in Y + 1 when start_month > end_month, on end_day when it is
\* given and else on the last day of end_month, and the time value
\* start + (end - start) / 2; DJF on 2000 gives 2000-12-01 and 2001-02-28
C5_SeasonalBounds ==
  (PostProcessed("get_seasonal_time_updater.add_time_bounds")
     /\ out.ret.status = "return") =>
    LET p == HeldFrequency.post_processing
        cal == calendar_of(out.da)
        r == out.ret.value
    IN /\ Len(r.time_bounds) = Len(InputYears)
       /\ Len(r.da.time) = Len(InputYears)
       /\ \A i \in DOMAIN InputYears :
            LET e == SeasonOfYear(p, cal, InputYears[i])
            IN /\ r.time_bounds[i] = <<e[1], e[2]>>
               /\ r.da.time[i] = e[3]
       /\ (held = AttrRef("DJF") /\ out.da.index = "DatetimeIndex"
             /\ out.da.time = <<335 * day_ticks>>)
            => r.time_bounds = << <<335 * day_ticks, 424 * day_ticks>> >>

C5_Witness ==
  /\ PostProcessed("get_seasonal_time_updater.add_time_bounds")
  /\ held = AttrRef("DJF")
  /\ out.da.index = "DatetimeIndex"
  /\ out.da.time = <<335 * day_ticks>>
  /\ out.ret.status = "return"
  /\ out.ret.value.time_bounds = << <<335 * day_ticks, 424 * day_ticks>> >>

\* C6: the regular post-processing emits one pair per timestamp t with
\* start = t floored to the day, end = start + one period - one day and the
\* time value start + (end - start) / 2, on a DatetimeIndex and on a
\* CFTimeIndex alike; monthly at 2001-01-01 gives (2001-01-01, 2001-01-31)
C6_RegularBounds ==
  (PostProcessed("_get_time_bounds_updater.add_time_bounds")
     /\ out.ret.status = "return") =>
    LET cal == calendar_of(out.da)
        offset == to_offset(HeldFrequency.post_processing.freq).value
        r == out.ret.value
    IN /\ Len(r.time_bounds) = Len(out.da.time)
       /\ \A i \in DOMAIN out.da.time :
            LET start == floor_D(out.da.time[i])
                end == add_offset(cal, start, offset) - day_ticks
            IN /\ r.time_bounds[i] = <<start, end>>
               /\ r.da.time[i] = start + ((end - start) \div 2)
       /\ (held = AttrRef("MONTH") /\ out.da.time = <<366 * day_ticks>>
             /\ cal \in {"proleptic_gregorian", "standard"})
            => r.time_bounds = << <<366 * day_ticks, 396 * day_ticks>> >>

\* C7: the post_processing of a Frequency that lookup returned never raises
C7_PostProcessingNeverRaises ==
  (out.op = "post_processing" /\ ~out.again) => out.ret.status = "return"

Idempotent ==
  /\ out.ret.status = "return"
  /\ out.ret.value.da.time = out.first.da.time
  /\ out.ret.value.time_bounds = out.first.time_bounds

AppliedAgain == out.op = "post_processing" /\ out.again

C9_MalformedSpecRefused ==
  (/\ out.op = "lookup"
   /\ ~out.no_error
   /\ \/ out.item.type \notin {"Frequency", "str", "list", "tuple"}
      \/ /\ out.item.type \in {"list", "tuple"}
         /\ \/ Len(out.item.elems) < 2
            \/ out.item.elems[1] \notin
                 {kw_month, kw_months, kw_season, kw_clipped_season}
            \/ /\ out.item.elems[2].type \in {"list", "tuple"}
               /\ Len(out.item.elems[2].elems) < 2)
    => out.ret = Raise("InvalidIcclimArgumentError")

CatalogKeys ==
  <<"HOUR", "DAY", "MONTH", "YEAR", "AMJJAS", "ONDJFM", "DJF", "MAM", "JJA", "SON">>

\* C10: whatever was called, the catalog holds exactly the ten entries HOUR,
\* DAY, MONTH, YEAR, AMJJAS, ONDJFM, DJF, MAM, JJA, SON with every field as
\* at import, and a [keyword, payload] spec or raw rule that resolves gives a
\* new Frequency, not a catalog entry
C10_CatalogUnchanged ==
  /\ [i \in DOMAIN catalog(FrequencyRegistry) |-> catalog(FrequencyRegistry)[i].key]
       = CatalogKeys
  /\ \A i \in DOMAIN CatalogKeys :
       /\ attr(FrequencyRegistry, CatalogKeys[i]) = attr(ClassNamespace, CatalogKeys[i])
       /\ attr(FrequencyRegistry, CatalogKeys[i]) =
            <<HOUR, DAY, MONTH, YEAR, AMJJAS, ONDJFM, DJF, MAM, JJA, SON>>[i]
  /\ (LookupReturned /\ out.item.type \in {"list", "tuple"})
       => (/\ out.ret.value.ref = "new"
           /\ \A i \in DOMAIN CatalogKeys :
                out.ret.value.obj # attr(FrequencyRegistry, CatalogKeys[i]))

C10_Witness ==
  /\ out.op = "build_frequency_kwargs"
  /\ held # NoneVal
  /\ held.ref = "new"
  /\ held.obj.indexer # NoneVal

\* the last call was build_frequency_kwargs on the held Frequency
BuiltKwargs == out.op = "build_frequency_kwargs" /\ out.ret.status = "return"

IndexerKeys(f) == IF f.indexer = NoneVal THEN {} ELSE DOMAIN f.indexer

\* C11: build_frequency_kwargs of a Frequency that lookup returned gives a
\* mapping whose "freq" is the non-empty pandas_freq, that holds besides it
\* exactly the entries of the indexer ("month" or "date_bounds") when there
\* is one, and the call leaves the indexer and every other field unchanged
C11_KwargsAreFreqPlusIndexer ==
  (out.op = "build_frequency_kwargs") =>
    LET f == out.before
        kwargs == out.ret.value
    IN /\ out.ret.status = "return"
       /\ kwargs.freq = f.pandas_freq
       /\ kwargs.freq # <<>>
       /\ DOMAIN kwargs = {"freq"} \cup IndexerKeys(f)
       /\ IndexerKeys(f) \subseteq {"month", "date_bounds"}
       /\ Cardinality(IndexerKeys(f)) <= 1
       /\ \A k \in IndexerKeys(f) : kwargs[k] = f.indexer[k]
       /\ HeldFrequency = f

C11_Witness ==
  /\ BuiltKwargs
  /\ IndexerKeys(out.before) = {"date_bounds"}
  /\ DOMAIN out.ret.value = {"freq", "date_bounds"}
  /\ out.ret.value.freq = <<"A","S","-","J","U","L">>

C11_WitnessNoIndexer ==
  /\ BuiltKwargs
  /\ held = AttrRef("HOUR")
  /\ DOMAIN out.ret.value = {"freq"}

Exited == cm.pc = "exited"

\* C12: once the context manager has exited, whether the with-body
\* completed, the with-body raised or the creation of the store raised before
\* anything was yielded, icclim-tmp-store-1.zarr and icclim-tmp-store-2.zarr do
\* not exist, the target store does not exist when keep_target_store is False,
\* and it exists when keep_target_store is True and the rechunking completed
C12_StoresCleanedOnExit ==
  Exited =>
    /\ TMP_STORE_1 \notin stores
    /\ TMP_STORE_2 \notin stores
    /\ ~cm.keep_target_store => cm.target_zarr_store_name \notin stores
    /\ (cm.keep_target_store /\ cm.rechunked)
         => cm.target_zarr_store_name \in stores

\* store creation raised in the middle of the rechunking and the context
\* manager exited without yielding
C12_Witness ==
  /\ Exited
  /\ cm.exc = "OSError"
  /\ cm.raised_at = "rechunk"
  /\ ~cm.keep_target_store
  /\ stores \cap {TMP_STORE_1, TMP_STORE_2, cm.target_zarr_store_name} = {}

\* the with-body raised and the target store was kept
C12_WitnessKept ==
  /\ Exited
  /\ cm.raised_at = "body"
  /\ cm.keep_target_store
  /\ cm.rechunked
  /\ cm.target_zarr_store_name \in stores

\* the positions at which a month list steps from December to January
Wraps(M) == {i \in 1..(Len(M) - 1) : M[i] = 12 /\ M[i + 1] = 1}

\* C13: a month list that steps from 12 to 1 more than once, such as the
\* fourteen months from December to the January after next, is refused with
\* InvalidIcclimArgumentError by "season" and by "clipped_season"
C13_SecondWrapRefused ==
  (IsMonthListSpec({kw_season, kw_clipped_season})
     /\ Cardinality(Wraps(SpecMonths)) > 1)
    => out.ret = Raise("InvalidIcclimArgumentError")

\* C14: every bounds pair that the seasonal post-processing of an accepted
\* season Frequency emits has start < end, and the rewritten time value lies
\* strictly between them; the two-date season ['20 july', '10 july'] included
C14_SeasonStartsBeforeItsEnd ==
  (PostProcessed("get_seasonal_time_updater.add_time_bounds")
     /\ out.ret.status = "return") =>
    LET r == out.ret.value
    IN \A i \in DOMAIN r.time_bounds :
         /\ r.time_bounds[i][1] < r.time_bounds[i][2]
         /\ r.time_bounds[i][1] < r.da.time[i]
         /\ r.da.time[i] < r.time_bounds[i][2]

\* C15: every bounds pair that the post-processing of a non-seasonal
\* Frequency (HOUR, DAY, MONTH, YEAR, a month filter, a raw rule) emits has
\* start <= end and start <= rewritten time value <= end, the hourly
\* frequency included
C15_PeriodStartsBeforeItsEnd ==
  (PostProcessed("_get_time_bounds_updater.add_time_bounds")
     /\ out.ret.status = "return") =>
    LET r == out.ret.value
    IN \A i \in DOMAIN r.time_bounds :
         /\ r.time_bounds[i][1] <= r.time_bounds[i][2]
         /\ r.time_bounds[i][1] <= r.da.time[i]
         /\ r.da.time[i] <= r.time_bounds[i][2]

====
